---- MODULE Spec2Model ----
(***************************************************************************)
(* Attestation / assertion verification and replay protection of           *)
(* auth-proxy (internal/attestation).                                       *)
(*                                                                          *)
(* The Verifier of attestation.go is modelled from its source.  The stores  *)
(* and the platform verifier it delegates to live in the dependency         *)
(* github.com/kacy/device-attestation, whose code is not part of the        *)
(* source tree; their behaviour is modelled from the specification          *)
(* (sections 4.1 - 4.4) and those definitions are named Store... , Key...   *)
(* and Lib... below.                                                        *)
(***************************************************************************)
EXTENDS Integers, FiniteSets, Sequences, TLC

(* ------------------------------ bounds -------------------------------- *)

\* Largest value of the clock (minutes since start).
MaxTime == 2

\* Number of challenges the stores issue in one behaviour.
MaxNonce == 2

\* Largest assertion counter a client presents.
MaxCounter == 2

\* A configured (non-zero) challenge timeout, in minutes.
ShortTimeout == 1

(* ------------------------- program constants -------------------------- *)

\* attestation.go:33-35, type Platform (iota).
PlatformUnspecified == 0

PlatformIOS == 1

PlatformAndroid == 2

\* attestation.go:102, the timeout used when ChallengeTimeout is zero (minutes).
DefaultChallengeTimeout == 5

\* A Platform value outside the declared constants.
PlatformUnknown == PlatformAndroid + 1

Platforms == {PlatformUnspecified, PlatformIOS, PlatformAndroid, PlatformUnknown}

\* The errors of package attestation (attestation.go:20-28); "nil" is success.
ErrAttestationRequired == "ErrAttestationRequired"

ErrInvalidAttestation == "ErrInvalidAttestation"

ErrUnsupportedPlatform == "ErrUnsupportedPlatform"

ErrInvalidAssertion == "ErrInvalidAssertion"

ErrKeyNotFound == "ErrKeyNotFound"

ErrReplayDetected == "ErrReplayDetected"

Nil == "nil"

\* The errors the library hands back (the cases of convertError, and
\* "other" for anything else: a context error, a network or storage error).
LibAttestationErrors ==
    {"deviceattest.ErrInvalidAttestation", "deviceattest.ErrVerificationFailed",
     "deviceattest.ErrInvalidBundleID", "deviceattest.ErrDeviceCompromised",
     "deviceattest.ErrAppNotRecognized"}

LibErrors ==
    LibAttestationErrors \cup
    {"ios.ErrKeyNotFound", "ios.ErrCounterReplay", "ios.ErrInvalidAssertion", "other"}

(* ------------------------------ inputs -------------------------------- *)

Identifiers == {"dev-1", "dev-2"}

KeyIDs == {"K1", "K2"}

\* Challenge tokens: 0 is the empty string, 1..MaxNonce are the nonces the
\* stores issue, MaxNonce + 1 is a token no store ever issued.
Tokens == 0 .. (MaxNonce + 1)

Counters == 0 .. MaxCounter

\* The counter a key starts with, as asserted by its attestation.
InitialCounters == {0}

\* The assertion requests that can be in flight at once.
Req == {1, 2}

\* The store shared by all instances (Redis), as opposed to the store of
\* instance i, which is named i.
SharedLoc == 0

\* No device key under this keyID.
NoKey == -1

\* The Config and RedisConfig values NewVerifier is called with.
Configs ==
    [IOSEnabled : BOOLEAN, AndroidEnabled : BOOLEAN,
     ChallengeTimeout : {0, ShortTimeout}]

RedisConfigs == [Enabled : BOOLEAN]

VARIABLES
    v,            \* the Verifier NewVerifier returned (every instance runs the same configuration)
    reRegister,   \* the library's policy for a repeated registration: "reject" or "replace" ("unset" until the first one)
    now,          \* the clock
    issued,       \* history: issued[n] is the identifier nonce n was issued to
    challenges,   \* the challenge stores: nonce -> [loc, id, iat, exp, consumed]
    keys,         \* the device key stores: <<loc, keyID>> -> counter, or NoKey
    resets,       \* history: the <<loc, keyID>> whose record a repeated registration replaced
    okCount,      \* history: how often ValidateChallenge(issued[n], n) has returned true (capped at 2)
    calls,        \* the assertion requests: slot -> [pc, present, key, counter, res]
    last          \* the last completed GenerateChallenge / ValidateChallenge / Verify call

vars == <<v, reRegister, now, issued, challenges, keys, resets, okCount, calls, last>>

(* ------------------------- Verifier (source) -------------------------- *)

\* IsEnabled: attestation is enabled for any platform.
IsEnabled(vv) == vv.config.IOSEnabled \/ vv.config.AndroidEnabled

IsIOSEnabled(vv) == vv.config.IOSEnabled

IsAndroidEnabled(vv) == vv.config.AndroidEnabled

\* The timeout NewVerifier hands to the stores: the configured value, or
\* five minutes when it is zero.
EffectiveTimeout(config) ==
    IF config.ChallengeTimeout = 0 THEN DefaultChallengeTimeout
    ELSE config.ChallengeTimeout

\* setupRedisStores / setupMemoryStores: the kind of both stores.
StoreKind(redisConfig) == IF redisConfig.Enabled THEN "redis" ELSE "memory"

\* NewVerifier leaving deviceattest.Config.KeyStore unset: the library
\* verifier works on a key store of its own process.
ConfigKeyStore_Unset(keyStore) == "memory"

\* The key store NewVerifier puts in deviceattest.Config.KeyStore: v.keyStore.
ConfigKeyStore(keyStore) == keyStore

\* NewVerifier, on its successful paths.  When no platform is enabled the
\* Verifier is returned with no store and no library verifier.  The library
\* verifier is configured with the timeout and the key store only
\* (deviceattest.Config{ChallengeTimeout, KeyStore}): it holds no reference
\* to the challenge store.
NewVerifier(config, redisConfig) ==
    IF ~config.IOSEnabled /\ ~config.AndroidEnabled
    THEN [config |-> config, challengeStore |-> "nil", keyStore |-> "nil",
          verifier |-> "nil", libKeyStore |-> "nil", timeout |-> 0]
    ELSE [config |-> config,
          challengeStore |-> StoreKind(redisConfig),
          keyStore |-> StoreKind(redisConfig),
          verifier |-> "lib",
          libKeyStore |-> ConfigKeyStore(StoreKind(redisConfig)),
          timeout |-> EffectiveTimeout(config)]

\* NewVerifier that goes on with in-memory stores when Redis cannot be set up.
NewVerifierResult_Fallback(config, redisConfig, redisOK, libOK) ==
    IF ~config.IOSEnabled /\ ~config.AndroidEnabled
    THEN [err |-> FALSE, v |-> NewVerifier(config, redisConfig)]
    ELSE IF ~libOK
    THEN [err |-> TRUE, v |-> NewVerifier(config, redisConfig)]
    ELSE IF redisConfig.Enabled /\ ~redisOK
    THEN [err |-> FALSE, v |-> NewVerifier(config, [Enabled |-> FALSE])]
    ELSE [err |-> FALSE, v |-> NewVerifier(config, redisConfig)]

\* NewVerifier with its error paths: err is whether it returns an error (and
\* no Verifier), v is the Verifier it returns otherwise.  redisOK: the ping
\* and the creation of both Redis stores succeed; libOK:
\* deviceattest.NewVerifier succeeds.
NewVerifierResult(config, redisConfig, redisOK, libOK) ==
    IF ~config.IOSEnabled /\ ~config.AndroidEnabled
    THEN [err |-> FALSE, v |-> NewVerifier(config, redisConfig)]
    ELSE IF redisConfig.Enabled /\ ~redisOK
    THEN [err |-> TRUE, v |-> NewVerifier(config, redisConfig)]
    ELSE IF ~libOK
    THEN [err |-> TRUE, v |-> NewVerifier(config, redisConfig)]
    ELSE [err |-> FALSE, v |-> NewVerifier(config, redisConfig)]

\* Where the construction of a Verifier can fail: the Redis ping, the
\* creation of the Redis challenge store or key store, and
\* deviceattest.NewVerifier; "none" is the construction that succeeds.
FailurePoints == {"none", "ping", "challengeStore", "keyStore", "verifier"}

\* The resources a Verifier under construction holds: "nil" for a field not
\* set, "open", or "closed".
NoResources == [redisClient |-> "nil", challengeStore |-> "nil"]

\* setupRedisStores: the client is created first; each failure returns the
\* error at once, with the fields set so far.
setupRedisStores(failure) ==
    IF failure \in {"ping", "challengeStore"}
    THEN [err |-> TRUE, res |-> [redisClient |-> "open", challengeStore |-> "nil"]]
    ELSE IF failure = "keyStore"
    THEN [err |-> TRUE, res |-> [redisClient |-> "open", challengeStore |-> "open"]]
    ELSE [err |-> FALSE, res |-> [redisClient |-> "open", challengeStore |-> "open"]]

\* setupMemoryStores: it cannot fail.
setupMemoryStores ==
    [err |-> FALSE, res |-> [redisClient |-> "nil", challengeStore |-> "open"]]

\* Close: the challenge store if it is set, the Redis client if it is set.
Close(res) ==
    [redisClient |-> IF res.redisClient # "nil" THEN "closed" ELSE "nil",
     challengeStore |-> IF res.challengeStore # "nil" THEN "closed" ELSE "nil"]

\* NewVerifier, the resources at its return: err is whether it returns an
\* error, res what the Verifier it built holds then.
NewVerifierResources(config, redisConfig, failure) ==
    IF ~config.IOSEnabled /\ ~config.AndroidEnabled
    THEN [err |-> FALSE, res |-> NoResources]
    ELSE LET stores == IF redisConfig.Enabled THEN setupRedisStores(failure)
                       ELSE setupMemoryStores
         IN  IF stores.err THEN stores
             ELSE IF failure = "verifier"
             THEN [err |-> TRUE, res |-> Close(stores.res)]
             ELSE stores

\* The instances of the deployment: one process with in-memory stores,
\* several behind a shared Redis.
Inst == IF v.challengeStore = "redis" THEN {1, 2} ELSE {1}

\* The instance the request in slot r arrives at.
InstOf(r) == ((r - 1) % Cardinality(Inst)) + 1

\* Where instance i's store of the given kind keeps its state: a Redis
\* store in the shared server, a memory store (also the one a library
\* verifier without a key store of its own would fall back to) in the process.
Loc(kind, i) == IF kind = "redis" THEN SharedLoc ELSE i

Locs == {SharedLoc, 1, 2}

\* convertError without its case for ios.ErrCounterReplay.
convertError_NoReplayCase(err) ==
    IF err = Nil THEN Nil
    ELSE IF err = "ios.ErrKeyNotFound" THEN ErrKeyNotFound
    ELSE IF err = "ios.ErrInvalidAssertion" THEN ErrInvalidAssertion
    ELSE ErrInvalidAttestation

\* convertError without its case for ios.ErrInvalidAssertion.
convertError_NoAssertionCase(err) ==
    IF err = Nil THEN Nil
    ELSE IF err = "ios.ErrKeyNotFound" THEN ErrKeyNotFound
    ELSE IF err = "ios.ErrCounterReplay" THEN ErrReplayDetected
    ELSE ErrInvalidAttestation

\* convertError that takes a rejected counter for no error.
convertError_ReplayAsNil(err) ==
    IF err = Nil \/ err = "ios.ErrCounterReplay" THEN Nil
    ELSE IF err = "ios.ErrKeyNotFound" THEN ErrKeyNotFound
    ELSE IF err = "ios.ErrInvalidAssertion" THEN ErrInvalidAssertion
    ELSE ErrInvalidAttestation

\* convertError whose default case returns no error.
convertError_DefaultNil(err) ==
    IF err = Nil THEN Nil
    ELSE IF err \in LibAttestationErrors THEN ErrInvalidAttestation
    ELSE IF err = "ios.ErrKeyNotFound" THEN ErrKeyNotFound
    ELSE IF err = "ios.ErrCounterReplay" THEN ErrReplayDetected
    ELSE IF err = "ios.ErrInvalidAssertion" THEN ErrInvalidAssertion
    ELSE Nil

\* convertError whose default case hands the library's error on.
convertError_PassThrough(err) ==
    IF err = Nil THEN Nil
    ELSE IF err \in LibAttestationErrors THEN ErrInvalidAttestation
    ELSE IF err = "ios.ErrKeyNotFound" THEN ErrKeyNotFound
    ELSE IF err = "ios.ErrCounterReplay" THEN ErrReplayDetected
    ELSE IF err = "ios.ErrInvalidAssertion" THEN ErrInvalidAssertion
    ELSE err

\* convertError: the library's error as an error of this package.
convertError(err) ==
    IF err = Nil THEN Nil
    ELSE IF err = "deviceattest.ErrInvalidAttestation" THEN ErrInvalidAttestation
    ELSE IF err = "deviceattest.ErrVerificationFailed" THEN ErrInvalidAttestation
    ELSE IF err = "deviceattest.ErrInvalidBundleID" THEN ErrInvalidAttestation
    ELSE IF err = "deviceattest.ErrDeviceCompromised" THEN ErrInvalidAttestation
    ELSE IF err = "deviceattest.ErrAppNotRecognized" THEN ErrInvalidAttestation
    ELSE IF err = "ios.ErrKeyNotFound" THEN ErrKeyNotFound
    ELSE IF err = "ios.ErrCounterReplay" THEN ErrReplayDetected
    ELSE IF err = "ios.ErrInvalidAssertion" THEN ErrInvalidAssertion
    ELSE ErrInvalidAttestation

\* Verify with the check for nil data placed before the check for a
\* disabled subsystem.
VerifyGate_NilFirst(vv, data) ==
    IF ~data.present THEN ErrAttestationRequired
    ELSE IF ~IsEnabled(vv) THEN Nil
    ELSE IF data.platform = PlatformIOS \/ data.platform = PlatformAndroid THEN "call"
    ELSE ErrUnsupportedPlatform

\* Verify without the check for nil data: the platform switch decides.
VerifyGate_NoNilCheck(vv, data) ==
    IF ~IsEnabled(vv) THEN Nil
    ELSE IF data.platform = PlatformIOS \/ data.platform = PlatformAndroid THEN "call"
    ELSE ErrUnsupportedPlatform

\* Verify without the test for a disabled subsystem.
VerifyGate_NoEnabledCheck(vv, data) ==
    IF ~data.present THEN ErrAttestationRequired
    ELSE IF data.platform = PlatformIOS \/ data.platform = PlatformAndroid THEN "call"
    ELSE ErrUnsupportedPlatform

\* Verify whose platform switch has no default case: every platform is
\* handed to the library.
VerifyGate_NoDefault(vv, data) ==
    IF ~IsEnabled(vv) THEN Nil
    ELSE IF ~data.present THEN ErrAttestationRequired
    ELSE "call"

\* Verify, up to the call into the library: the error it returns early, or
\* "call" when it dispatches to verifyIOS / verifyAndroid.
VerifyGate(vv, data) ==
    IF ~IsEnabled(vv) THEN Nil
    ELSE IF ~data.present THEN ErrAttestationRequired
    ELSE IF data.platform = PlatformIOS \/ data.platform = PlatformAndroid THEN "call"
    ELSE ErrUnsupportedPlatform

\* VerifyAssertion, up to the call into the library.
VerifyAssertionGate(vv, data) ==
    IF ~IsIOSEnabled(vv) THEN Nil
    ELSE IF ~data.present THEN ErrAttestationRequired
    ELSE "call"

\* ValidateChallenge with the test for a missing store inverted.
ValidateChallengeResult_Inverted(vv, storeAnswer) ==
    IF vv.challengeStore # "nil" THEN TRUE ELSE storeAnswer

\* ValidateChallenge that never asks the store.
ValidateChallengeResult_NoStore(vv, storeAnswer) == TRUE

\* ValidateChallenge returning the opposite of the store's answer.
ValidateChallengeResult_Negated(vv, storeAnswer) ==
    IF vv.challengeStore = "nil" THEN TRUE ELSE ~storeAnswer

\* ValidateChallenge without the test for a missing store.
ValidateChallengeResult_AskStore(vv, storeAnswer) == storeAnswer

\* ValidateChallenge: true without a challenge store, else the store's answer.
ValidateChallengeResult(vv, storeAnswer) ==
    IF vv.challengeStore = "nil" THEN TRUE ELSE storeAnswer

\* The key store the library verifier works on.
LibKeyLoc(vv, i) == Loc(vv.libKeyStore, i)

\* The challenge store behind GenerateChallenge and ValidateChallenge.
ChallengeLoc(vv, i) == Loc(vv.challengeStore, i)

(* ------------------- stores and library (specification) --------------- *)

\* Challenge Store: a challenge is expired after expiresAt.
Expired(c) == now > c.exp

\* Challenge Store: what the store of instance i holds for a token:
\* "none" (no store), "unknown" (never issued there, or reclaimed),
\* "consumed", "expired" or "live".
ChalStatus(vv, i, tok) ==
    IF vv.challengeStore = "nil" THEN "none"
    ELSE IF tok \notin DOMAIN challenges THEN "unknown"
    ELSE IF challenges[tok].loc # ChallengeLoc(vv, i) THEN "unknown"
    ELSE IF challenges[tok].consumed THEN "consumed"
    ELSE IF Expired(challenges[tok]) THEN "expired"
    ELSE "live"

\* Challenge Store, Validate: the challenge exists in this store for this
\* identifier, is not consumed and not past expiresAt.
StoreValid(vv, i, id, tok) ==
    ChalStatus(vv, i, tok) = "live" /\ challenges[tok].id = id

\* Device Key Store, AdvanceCounter: accepted iff the presented counter is
\* strictly greater than the stored one.
CounterAccepted(stored, presented) == presented > stored

\* The platforms the library verifier holds a configuration for.
LibCanVerify(vv, platform) ==
    \/ platform = PlatformIOS /\ vv.config.IOSEnabled
    \/ platform = PlatformAndroid /\ vv.config.AndroidEnabled

\* What the platform verification of an attestation can answer.
LibVerifyAnswers(vv, platform) ==
    (IF LibCanVerify(vv, platform) THEN {Nil} ELSE {}) \cup
    LibAttestationErrors \cup {"other"}

\* What the platform verification of an assertion can answer.
LibAssertionAnswers == {Nil, "ios.ErrInvalidAssertion", "other"}

\* The request of an attestation and of an assertion; present = FALSE is nil.
NilAttestation ==
    [present |-> FALSE, platform |-> PlatformUnspecified, challenge |-> 0, keyID |-> "K1"]

\* The keyID reaches the library on the iOS path only (verifyAndroid
\* builds its request without it), so the other platforms come with one.
AttestationInputs ==
    {NilAttestation} \cup
    {d \in [present : {TRUE}, platform : Platforms,
            challenge : 1 .. (MaxNonce + 1), keyID : KeyIDs] :
        d.platform # PlatformIOS => d.keyID = "K1"}

NilAssertion == [present |-> FALSE, keyID |-> "K1", counter |-> 0]

AssertionInputs ==
    {NilAssertion} \cup [present : {TRUE}, keyID : KeyIDs, counter : Counters]

\* lib is what the library answered and called whether its verifier was
\* called at all; branch, status, code and next are the branch the
\* middleware took and what it did with the response: status 0 and an empty
\* code mean that it wrote nothing.
NoCall == [op |-> "none", res |-> Nil, tok |-> 0, chal |-> "none", prior |-> FALSE,
           present |-> FALSE, platform |-> PlatformUnspecified,
           lib |-> Nil, called |-> FALSE,
           branch |-> "none", status |-> 0, code |-> "", next |-> FALSE]

IdleCall == [pc |-> "idle", present |-> FALSE, key |-> "K1", counter |-> 0, res |-> Nil]

(* --------------------------- HTTP transport --------------------------- *)

\* A nil pointer dereference: a method called on a store or verifier that
\* NewVerifier left unset.
Panic == "panic"

\* strings.ToLower on the X-Platform values that are sent.
ToLower(s) ==
    IF s = "iOS" THEN "ios" ELSE s

PlatformHeaders == {"", "ios", "iOS", "android", "google", "windows"}

\* parsePlatform: the X-Platform header as a Platform.
parsePlatform(s) ==
    IF ToLower(s) \in {"ios", "apple"} THEN PlatformIOS
    ELSE IF ToLower(s) \in {"android", "google"} THEN PlatformAndroid
    ELSE PlatformUnspecified

\* handleError with ErrKeyNotFound answered like an invalid assertion.
handleError_KeyNotFoundForbidden(err) ==
    IF err = ErrAttestationRequired
    THEN [status |-> 401, code |-> "attestation_required"]
    ELSE IF err = ErrInvalidAttestation
    THEN [status |-> 403, code |-> "invalid_attestation"]
    ELSE IF err = ErrUnsupportedPlatform
    THEN [status |-> 400, code |-> "unsupported_platform"]
    ELSE IF err = ErrKeyNotFound
    THEN [status |-> 403, code |-> "invalid_assertion"]
    ELSE IF err = ErrReplayDetected
    THEN [status |-> 403, code |-> "replay_detected"]
    ELSE IF err = ErrInvalidAssertion
    THEN [status |-> 403, code |-> "invalid_assertion"]
    ELSE [status |-> 500, code |-> "attestation_error"]

\* handleError: the status code and the error code of the JSON body.
handleError(err) ==
    IF err = ErrAttestationRequired
    THEN [status |-> 401, code |-> "attestation_required"]
    ELSE IF err = ErrInvalidAttestation
    THEN [status |-> 403, code |-> "invalid_attestation"]
    ELSE IF err = ErrUnsupportedPlatform
    THEN [status |-> 400, code |-> "unsupported_platform"]
    ELSE IF err = ErrKeyNotFound
    THEN [status |-> 401, code |-> "key_not_found"]
    ELSE IF err = ErrReplayDetected
    THEN [status |-> 403, code |-> "replay_detected"]
    ELSE IF err = ErrInvalidAssertion
    THEN [status |-> 403, code |-> "invalid_assertion"]
    ELSE [status |-> 500, code |-> "attestation_error"]

(* --------------------------- gRPC transport --------------------------- *)

\* The request messages: the four with an attestation field, and one
\* without.
RequestTypes ==
    {"SignUpRequest", "SignInRequest", "OAuthRequest", "RefreshTokenRequest",
     "SignOutRequest"}

\* authv1.Platform: the three named values and a number with no name.
ProtoPlatforms ==
    {"PLATFORM_UNSPECIFIED", "PLATFORM_IOS", "PLATFORM_ANDROID", "PLATFORM_99"}

\* The attestation field of a request message; present = FALSE is nil.
NilProto == [present |-> FALSE, platform |-> "PLATFORM_UNSPECIFIED", keyID |-> "K1"]

ProtoAttestations ==
    {NilProto} \cup
    {a \in [present : {TRUE}, platform : ProtoPlatforms, keyID : KeyIDs] :
        a.platform # "PLATFORM_IOS" => a.keyID = "K1"}

\* protoAttestationToInternal: nil for nil, else the data with the
\* platform converted.
protoAttestationToInternal(proto) ==
    IF ~proto.present THEN NilAttestation
    ELSE [present |-> TRUE,
          platform |-> IF proto.platform = "PLATFORM_IOS" THEN PlatformIOS
                       ELSE IF proto.platform = "PLATFORM_ANDROID" THEN PlatformAndroid
                       ELSE PlatformUnspecified,
          challenge |-> 0, keyID |-> proto.keyID]

\* extractAttestationData whose default case returns empty data, not nil.
extractAttestationData_EmptyDefault(rpc) ==
    IF rpc.type \in {"SignUpRequest", "SignInRequest", "OAuthRequest",
                     "RefreshTokenRequest"}
    THEN protoAttestationToInternal(rpc.attestation)
    ELSE [NilAttestation EXCEPT !.present = TRUE]

\* extractAttestationData: the type switch on the request message.
extractAttestationData(rpc) ==
    IF rpc.type \in {"SignUpRequest", "SignInRequest", "OAuthRequest",
                     "RefreshTokenRequest"}
    THEN protoAttestationToInternal(rpc.attestation)
    ELSE NilAttestation

\* UnaryServerInterceptor, the switch on Verify's error: the gRPC code of
\* the status it returns.
grpcCode(err) ==
    IF err = ErrAttestationRequired THEN "Unauthenticated"
    ELSE IF err = ErrInvalidAttestation THEN "PermissionDenied"
    ELSE IF err = ErrUnsupportedPlatform THEN "InvalidArgument"
    ELSE "Internal"

\* Middleware, after the verification: on an error handleError writes the
\* response and the handler returns; otherwise next.ServeHTTP is called.
\* The interceptor returns a status with grpcCode or calls the handler.
\* A direct call of the Verifier has no response.
Respond(rec) ==
    IF rec.op = "Interceptor"
    THEN (IF rec.res = Nil THEN [rec EXCEPT !.next = TRUE]
          ELSE [rec EXCEPT !.code = grpcCode(rec.res)])
    ELSE IF rec.op # "Middleware" THEN rec
    ELSE IF rec.res = Nil THEN [rec EXCEPT !.next = TRUE]
    ELSE [rec EXCEPT !.status = handleError(rec.res).status,
                     !.code = handleError(rec.res).code]

(* ------------------------------- Init --------------------------------- *)

Init ==
    /\ v \in {NewVerifier(c, r) : c \in Configs, r \in RedisConfigs}
    /\ reRegister = "unset"
    /\ now = 0
    /\ issued = <<>>
    /\ challenges = <<>>
    /\ keys = [lk \in Locs \X KeyIDs |-> NoKey]
    /\ resets = {}
    /\ okCount = [n \in 1 .. MaxNonce |-> 0]
    /\ calls = [r \in Req |-> IdleCall]
    /\ last = NoCall

(* ------------------------------ actions ------------------------------- *)

\* Time passes.
Tick ==
    /\ now < MaxTime
    /\ now' = now + 1
    /\ UNCHANGED <<v, reRegister, issued, challenges, keys, resets, okCount, calls, last>>

\* GenerateChallenge(identifier) on instance i.  storeErr: the store fails
\* (a shared store can be unreachable).
GenerateChallenge(i, id, storeErr) ==
    LET n == Len(issued) + 1
    IN  /\ IF v.challengeStore = "nil"
           THEN /\ ~storeErr
                /\ last' = [NoCall EXCEPT !.op = "Generate"]
                /\ UNCHANGED <<challenges, issued>>
           ELSE IF storeErr
           THEN /\ v.challengeStore = "redis"
                /\ last' = [NoCall EXCEPT !.op = "Generate", !.res = "error"]
                /\ UNCHANGED <<challenges, issued>>
           ELSE /\ n <= MaxNonce
                /\ challenges' =
                     [m \in DOMAIN challenges \cup {n} |->
                        IF m = n
                        THEN [loc |-> ChallengeLoc(v, i), id |-> id, iat |-> now,
                              exp |-> now + v.timeout, consumed |-> FALSE]
                        ELSE challenges[m]]
                /\ issued' = Append(issued, id)
                /\ last' = [NoCall EXCEPT !.op = "Generate", !.tok = n]
        /\ UNCHANGED <<v, reRegister, now, keys, resets, okCount, calls>>

\* ValidateChallenge(identifier, token) on instance i: one atomic
\* check-and-consume of the store.
ValidateChallenge(i, id, tok, storeErr) ==
    LET answer == ~storeErr /\ StoreValid(v, i, id, tok)
        res == ValidateChallengeResult(v, answer)
        wasIssued == tok \in 1 .. Len(issued) /\ issued[tok] = id
    IN  /\ storeErr => v.challengeStore = "redis"
        /\ challenges' =
             IF answer THEN [challenges EXCEPT ![tok].consumed = TRUE] ELSE challenges
        /\ okCount' =
             IF res /\ wasIssued /\ okCount[tok] < 2
             THEN [okCount EXCEPT ![tok] = @ + 1] ELSE okCount
        /\ last' = [NoCall EXCEPT !.op = "Validate",
                                  !.res = IF res THEN "true" ELSE "false",
                                  !.chal = IF ChalStatus(v, i, tok) = "live" /\ ~answer
                                           THEN (IF storeErr THEN "error" ELSE "mismatch")
                                           ELSE ChalStatus(v, i, tok),
                                  !.prior = wasIssued /\ okCount[tok] > 0]
        /\ UNCHANGED <<v, reRegister, now, issued, keys, resets, calls>>

\* Reclamation of one challenge that is expired or consumed.
Reclaim(tok) ==
    /\ tok \in DOMAIN challenges
    /\ challenges[tok].consumed \/ Expired(challenges[tok])
    /\ challenges' = [n \in DOMAIN challenges \ {tok} |-> challenges[n]]
    /\ UNCHANGED <<v, reRegister, now, issued, keys, resets, okCount, calls, last>>

\* Device Key Store, Register, as the library's Verify calls it after a
\* successful iOS attestation: creates the key; a key already present is
\* kept ("reject") or superseded ("replace").  The policy is the
\* library's: it is fixed by the first repeated registration.
RegisterPolicies(loc, k) ==
    IF keys[<<loc, k>>] = NoKey THEN {reRegister}
    ELSE IF reRegister = "unset" THEN {"reject", "replace"}
    ELSE {reRegister}

\* The library's Verify: the platform's answer, or the refusal of a
\* repeated registration.  No challenge store is consulted: the library
\* verifier was given none, and the request carries no identifier.
LibVerify(vv, i, data, answer, policy) ==
    IF answer = Nil /\ data.platform = PlatformIOS
       /\ keys[<<LibKeyLoc(vv, i), data.keyID>>] # NoKey /\ policy = "reject"
    THEN "other"
    ELSE answer

\* Verify(ctx, data) on instance i, called directly (op = "Verify") or by
\* the middleware.  answer: what the platform verification says; c0: the
\* counter the attestation asserts.  A dispatch to verifyIOS / verifyAndroid
\* calls v.verifier, which must be set.
VerifyCall(i, data, answer, c0, op) ==
    LET gate == VerifyGate(v, data)
        lk == <<LibKeyLoc(v, i), data.keyID>>
    IN  \E policy \in RegisterPolicies(lk[1], data.keyID) :
        LET err == IF gate = "call" /\ v.verifier # "nil"
                   THEN LibVerify(v, i, data, answer, policy) ELSE Nil
            res == IF gate # "call" THEN gate
                   ELSE IF v.verifier = "nil" THEN Panic
                   ELSE convertError(err)
            registers == gate = "call" /\ res = Nil /\ data.platform = PlatformIOS
        IN  /\ gate = "call" => answer \in LibVerifyAnswers(v, data.platform)
            /\ gate # "call" => answer = Nil
            /\ ~(gate = "call" /\ answer = Nil /\ data.platform = PlatformIOS)
                 => c0 = 0 /\ policy = reRegister
            /\ reRegister' = policy
            /\ keys' = IF registers THEN [keys EXCEPT ![lk] = c0] ELSE keys
            /\ resets' = IF registers /\ keys[lk] # NoKey THEN resets \cup {lk} ELSE resets
            /\ last' = Respond([NoCall EXCEPT
                                  !.op = op, !.res = res, !.lib = err,
                                  !.called = (gate = "call" /\ v.verifier # "nil"),
                                  !.branch = IF op = "Middleware" THEN "attestation"
                                             ELSE "none",
                                  !.chal = ChalStatus(v, i, data.challenge),
                                  !.present = data.present,
                                  !.platform = data.platform])
            /\ UNCHANGED <<v, now, issued, challenges, okCount, calls>>

\* Verify(ctx, data) on instance i.
Verify(i, data, answer, c0) == VerifyCall(i, data, answer, c0, "Verify")

\* VerifyAssertion with a request to the library that names one fixed key.
AssertionRequestKeyID_Fixed(data) == "K1"

\* The KeyID of the ios.AssertionRequest VerifyAssertion builds: the KeyID
\* of the data it was given.
AssertionRequestKeyID(data) == data.keyID

\* VerifyAssertion(ctx, data) on the instance of slot r, up to the counter
\* update: the gate, then in the library the lookup of the key and the
\* check of the signature.  answer: what the signature check says.
AssertBegin(r, data, answer) ==
    LET gate == VerifyAssertionGate(v, data)
        lk == <<LibKeyLoc(v, InstOf(r)), AssertionRequestKeyID(data)>>
        err == IF keys[lk] = NoKey THEN "ios.ErrKeyNotFound" ELSE answer
        started == [pc |-> "done", present |-> data.present,
                    key |-> data.keyID, counter |-> data.counter, res |-> Nil]
    IN  /\ calls[r].pc = "idle"
        /\ (gate # "call" \/ keys[lk] = NoKey) => answer = Nil
        /\ calls' =
             [calls EXCEPT ![r] =
                IF gate # "call" THEN [started EXCEPT !.res = gate]
                ELSE IF err # Nil THEN [started EXCEPT !.res = convertError(err)]
                ELSE [started EXCEPT !.pc = "verified"]]
        /\ UNCHANGED <<v, reRegister, now, issued, challenges, keys, resets, okCount, last>>

\* VerifyAssertion, the counter update in the library: AdvanceCounter, one
\* atomic compare-and-set on the key's record.
AssertAdvance(r) ==
    LET c == calls[r]
        lk == <<LibKeyLoc(v, InstOf(r)), AssertionRequestKeyID([keyID |-> c.key])>>
        accepted == CounterAccepted(keys[lk], c.counter)
    IN  /\ c.pc = "verified"
        /\ keys' = IF accepted THEN [keys EXCEPT ![lk] = c.counter] ELSE keys
        /\ calls' =
             [calls EXCEPT ![r].pc = "done",
                           ![r].res = IF accepted THEN Nil
                                      ELSE convertError("ios.ErrCounterReplay")]
        /\ UNCHANGED <<v, reRegister, now, issued, challenges, resets, okCount, last>>

\* The caller takes the result of a finished VerifyAssertion.
AssertReturn(r) ==
    /\ calls[r].pc = "done"
    /\ calls' = [calls EXCEPT ![r] = IdleCall]
    /\ UNCHANGED <<v, reRegister, now, issued, challenges, keys, resets, okCount, last>>

\* VerifyAssertion(ctx, data) on instance i as one call that runs to its
\* end with no other request in between, called directly (op =
\* "VerifyAssertion") or by the middleware: the gate, then in the library the
\* lookup of the key, the check of the signature and the counter update.
VerifyAssertionCall(i, data, answer, op) ==
    LET gate == VerifyAssertionGate(v, data)
        lk == <<LibKeyLoc(v, i), AssertionRequestKeyID(data)>>
        called == gate = "call" /\ v.verifier # "nil"
        err == IF ~called THEN Nil
               ELSE IF keys[lk] = NoKey THEN "ios.ErrKeyNotFound"
               ELSE IF answer # Nil THEN answer
               ELSE IF CounterAccepted(keys[lk], data.counter) THEN Nil
               ELSE "ios.ErrCounterReplay"
        res == IF gate # "call" THEN gate
               ELSE IF v.verifier = "nil" THEN Panic
               ELSE convertError(err)
    IN  /\ (gate # "call" \/ keys[lk] = NoKey) => answer = Nil
        /\ keys' = IF called /\ err = Nil THEN [keys EXCEPT ![lk] = data.counter]
                   ELSE keys
        /\ last' = Respond([NoCall EXCEPT
                              !.op = op, !.res = res, !.lib = err,
                              !.called = called,
                              !.branch = IF op = "Middleware" THEN "assertion"
                                         ELSE "none",
                              !.present = data.present])
        /\ UNCHANGED <<v, reRegister, now, issued, challenges, resets, okCount, calls>>

\* VerifyAssertion(ctx, data) on instance i.
VerifyAssertion(i, data, answer) == VerifyAssertionCall(i, data, answer, "VerifyAssertion")

\* The requests the middleware receives: the path, which of the headers
\* X-Attestation-Assertion and X-Attestation are non-empty, X-Platform, the
\* key id, the challenge, whether X-Attestation-Client-Data is valid base64,
\* and the counter inside the assertion.
PlainRequest ==
    [health |-> FALSE, assertion |-> FALSE, attestation |-> FALSE, platform |-> "",
     keyID |-> "K1", challenge |-> 0, clientDataOK |-> TRUE, counter |-> 0]

\* X-Attestation-Challenge: empty, the first nonce a store issues, a token
\* no store ever issued.
ChallengeHeaders == {0, 1, MaxNonce + 1}

\* The key id matters on the iOS paths only, and a request with both
\* headers is treated like one with the assertion header alone.
Requests ==
    {PlainRequest, [PlainRequest EXCEPT !.health = TRUE],
     [PlainRequest EXCEPT !.assertion = TRUE, !.attestation = TRUE],
     [PlainRequest EXCEPT !.assertion = TRUE, !.clientDataOK = FALSE]} \cup
    {[PlainRequest EXCEPT !.assertion = TRUE, !.keyID = k, !.counter = c] :
        k \in KeyIDs, c \in Counters} \cup
    {r \in {[PlainRequest EXCEPT !.attestation = TRUE, !.platform = h, !.keyID = k,
                                 !.challenge = t] :
                h \in PlatformHeaders, k \in KeyIDs, t \in ChallengeHeaders} :
        parsePlatform(r.platform) # PlatformIOS => r.keyID = "K1"}

\* The header test of Middleware with the attestation header looked at first.
SelectFlow_AttestationFirst(req) ==
    IF req.attestation THEN "attestation"
    ELSE IF req.assertion THEN "assertion"
    ELSE "missing"

\* Middleware, the test of the headers: X-Attestation-Assertion first, then
\* X-Attestation.
SelectFlow(req) ==
    IF req.assertion THEN "assertion"
    ELSE IF req.attestation THEN "attestation"
    ELSE "missing"

\* Middleware on instance i for one request, from its arrival to the
\* response or the call of the next handler.
Middleware(i, req, answer, c0) ==
    LET skip(branch) ==
            /\ answer = Nil /\ c0 = 0
            /\ last' = Respond([NoCall EXCEPT !.op = "Middleware", !.branch = branch])
            /\ UNCHANGED <<v, reRegister, now, issued, challenges, keys, resets,
                           okCount, calls>>
        reject(branch, err) ==
            /\ answer = Nil /\ c0 = 0
            /\ last' = Respond([NoCall EXCEPT !.op = "Middleware", !.branch = branch,
                                              !.res = err])
            /\ UNCHANGED <<v, reRegister, now, issued, challenges, keys, resets,
                           okCount, calls>>
    IN  IF req.health THEN skip("health")
        ELSE IF ~IsEnabled(v) THEN skip("disabled")
        ELSE IF SelectFlow(req) = "assertion"
        THEN IF ~req.clientDataOK THEN reject("assertion", ErrInvalidAssertion)
             ELSE /\ c0 = 0
                  /\ VerifyAssertionCall(i, [present |-> TRUE, keyID |-> req.keyID,
                                             counter |-> req.counter],
                                         answer, "Middleware")
        ELSE IF SelectFlow(req) = "attestation"
        THEN VerifyCall(i, [present |-> TRUE, platform |-> parsePlatform(req.platform),
                            challenge |-> req.challenge, keyID |-> req.keyID],
                        answer, c0, "Middleware")
        ELSE reject("missing", ErrAttestationRequired)

\* The unary RPCs the interceptor receives: whether the method is
\* /auth.v1.HealthService/Check, the type of the request message and its
\* attestation field (nil for a message that has none).
RPCs ==
    {r \in [health : BOOLEAN, type : RequestTypes, attestation : ProtoAttestations] :
        /\ r.type = "SignOutRequest" => r.attestation = NilProto
        /\ r.health => r.type = "SignOutRequest"}

\* UnaryServerInterceptor on instance i for one RPC, from its arrival to
\* the status it returns or the call of the handler.
Interceptor(i, rpc, answer, c0) ==
    LET skip(branch) ==
            /\ answer = Nil /\ c0 = 0
            /\ last' = Respond([NoCall EXCEPT !.op = "Interceptor", !.branch = branch])
            /\ UNCHANGED <<v, reRegister, now, issued, challenges, keys, resets,
                           okCount, calls>>
    IN  IF rpc.health THEN skip("health")
        ELSE IF ~IsEnabled(v) THEN skip("disabled")
        ELSE VerifyCall(i, extractAttestationData(rpc), answer, c0, "Interceptor")

(* --------------------------- specifications --------------------------- *)

DoGenerate ==
    \E i \in Inst, id \in Identifiers, storeErr \in BOOLEAN :
        GenerateChallenge(i, id, storeErr)

DoValidate ==
    \E i \in Inst, id \in Identifiers, tok \in Tokens, storeErr \in BOOLEAN :
        ValidateChallenge(i, id, tok, storeErr)

DoReclaim == \E tok \in Tokens : Reclaim(tok)

\* The answers and initial counters a Verify call can meet.
VerifyAnswers(data) ==
    IF VerifyGate(v, data) = "call" THEN LibVerifyAnswers(v, data.platform) ELSE {Nil}

\* One answer for each result convertError makes of the answers: answers
\* with the same converted error lead to the same state.
OneOfEach(answers) ==
    {CHOOSE a \in answers : convertError(a) = e : e \in {convertError(a) : a \in answers}}

VerifyCounters(data, answer) ==
    IF VerifyGate(v, data) = "call" /\ answer = Nil /\ data.platform = PlatformIOS
    THEN InitialCounters ELSE {0}

DoVerify ==
    \E i \in Inst, data \in AttestationInputs :
        \E answer \in OneOfEach(VerifyAnswers(data)) :
            \E c0 \in VerifyCounters(data, answer) :
                Verify(i, data, answer, c0)

\* Verify on an iOS attestation the platform accepts: the calls that
\* register device keys.
DoRegister ==
    \E i \in Inst, k \in KeyIDs, c0 \in InitialCounters :
        /\ IsIOSEnabled(v)
        /\ Verify(i, [present |-> TRUE, platform |-> PlatformIOS,
                      challenge |-> 0, keyID |-> k], Nil, c0)

DoAssertBegin ==
    \E r \in Req, data \in AssertionInputs, answer \in LibAssertionAnswers :
        AssertBegin(r, data, answer)

DoAssertAdvance == \E r \in Req : AssertAdvance(r)

DoAssertReturn == \E r \in Req : AssertReturn(r)

DoVerifyAssertion ==
    \E i \in Inst, data \in AssertionInputs, answer \in LibAssertionAnswers :
        VerifyAssertion(i, data, answer)

\* The answers the library can give to the verification a request leads to.
MiddlewareAnswers(req) ==
    IF req.health \/ ~IsEnabled(v) THEN {Nil}
    ELSE IF req.assertion THEN LibAssertionAnswers
    ELSE IF req.attestation
    THEN (IF parsePlatform(req.platform) = PlatformUnspecified THEN {Nil}
          ELSE OneOfEach(LibVerifyAnswers(v, parsePlatform(req.platform))))
    ELSE {Nil}

DoMiddleware ==
    \E i \in Inst, req \in Requests :
        \E answer \in MiddlewareAnswers(req), c0 \in InitialCounters :
            Middleware(i, req, answer, c0)


\* The operations for one identifier and one key id.
DoGenerateOne ==
    \E i \in Inst, storeErr \in BOOLEAN : GenerateChallenge(i, "dev-1", storeErr)

DoValidateOne ==
    \E i \in Inst, tok \in Tokens, storeErr \in BOOLEAN :
        ValidateChallenge(i, "dev-1", tok, storeErr)

DoVerifyOne ==
    \E i \in Inst, data \in {d \in AttestationInputs : d.keyID = "K1"} :
        \E answer \in OneOfEach(VerifyAnswers(data)) :
            \E c0 \in VerifyCounters(data, answer) :
                Verify(i, data, answer, c0)

DoVerifyAssertionOne ==
    \E i \in Inst, data \in {d \in AssertionInputs : d.keyID = "K1"} :
        \E answer \in LibAssertionAnswers :
            VerifyAssertion(i, data, answer)

\* Verify presenting a challenge that has expired in the store.
DoVerifyExpired ==
    \E i \in Inst, data \in {d \in AttestationInputs : d.keyID = "K1"} :
        \E answer \in OneOfEach(VerifyAnswers(data)) :
            \E c0 \in VerifyCounters(data, answer) :
                /\ ChalStatus(v, i, data.challenge) = "expired"
                /\ Verify(i, data, answer, c0)

\* The attestation requests.
DoMiddlewareAttestation ==
    \E i \in Inst, req \in {r \in Requests : r.attestation /\ ~r.assertion} :
        \E answer \in MiddlewareAnswers(req), c0 \in InitialCounters :
            Middleware(i, req, answer, c0)

\* Verify whose context expires or is cancelled while the library works:
\* the library hands back the context's error.
DoVerifyCancelled ==
    \E i \in Inst, data \in {d \in AttestationInputs : d.keyID = "K1"} :
        /\ VerifyGate(v, data) = "call"
        /\ Verify(i, data, "other", 0)

\* VerifyAssertion whose context expires or is cancelled in the library.
DoVerifyAssertionCancelled ==
    \E i \in Inst, data \in {d \in AssertionInputs : d.keyID = "K1"} :
        /\ VerifyAssertionGate(v, data) = "call"
        /\ VerifyAssertion(i, data, "other")

\* VerifyAssertion requests one after the other, with signatures the
\* library accepts.
DoAssertBeginOne ==
    \E data \in AssertionInputs \ {NilAssertion} : AssertBegin(1, data, Nil)

\* The first registration of each device key.
DoRegisterNew ==
    \E i \in Inst, k \in KeyIDs :
        /\ IsIOSEnabled(v)
        /\ keys[<<LibKeyLoc(v, i), k>>] = NoKey
        /\ Verify(i, [present |-> TRUE, platform |-> PlatformIOS,
                      challenge |-> 0, keyID |-> k], Nil, 0)

\* ValidateChallenge for the nonces a reachable store issues.
DoValidateIssued ==
    \E i \in Inst, id \in Identifiers, tok \in 1 .. MaxNonce :
        ValidateChallenge(i, id, tok, FALSE)

\* The requests that differ in the headers that decide the flow: the path,
\* X-Attestation-Assertion, X-Attestation, and X-Platform empty or "ios".
FlowRequests ==
    {r \in Requests : /\ r.keyID = "K1" /\ r.counter = 0 /\ r.challenge = 0
                      /\ r.platform \in {"", "ios"} /\ r.clientDataOK} \cup
    {[PlainRequest EXCEPT !.assertion = TRUE, !.counter = 1]}

DoMiddlewareFlow ==
    \E i \in Inst, req \in FlowRequests :
        \E answer \in MiddlewareAnswers(req) : Middleware(i, req, answer, 0)

\* The answers the library can give to the Verify an RPC leads to.
InterceptorAnswers(rpc) ==
    IF rpc.health \/ ~IsEnabled(v) THEN {Nil}
    ELSE OneOfEach(VerifyAnswers(extractAttestationData(rpc)))

DoInterceptor ==
    \E i \in Inst, rpc \in RPCs :
        \E answer \in InterceptorAnswers(rpc), c0 \in InitialCounters :
            Interceptor(i, rpc, answer, c0)

\* The whole Verifier.
Next ==
    \/ Tick
    \/ DoGenerate
    \/ DoValidate
    \/ DoReclaim
    \/ DoVerify
    \/ DoAssertBegin
    \/ DoAssertAdvance
    \/ DoAssertReturn
    \/ DoVerifyAssertion
    \/ DoMiddleware
    \/ DoInterceptor

Spec == Init /\ [][Next]_vars

\* The challenge store's clients: GenerateChallenge and ValidateChallenge,
\* with time and reclamation.  The other operations leave the challenge
\* stores and the clock unchanged.
NextChallenge ==
    \/ Tick
    \/ DoGenerate
    \/ DoValidate
    \/ DoReclaim

SpecChallenge == Init /\ [][NextChallenge]_vars

\* Attestation: challenges are issued, time passes, Verify is called.
NextAttest ==
    \/ Tick
    \/ DoGenerate
    \/ DoVerify

SpecAttest == Init /\ [][NextAttest]_vars

\* Verify against stores that hold challenges and keys, at one point in time.
NextVerify ==
    \/ DoGenerate
    \/ DoVerify

SpecVerify == Init /\ [][NextVerify]_vars

\* Assertion: keys are registered by Verify, VerifyAssertion requests run
\* concurrently.  These operations leave the challenge stores unchanged, and
\* a Verify that fails leaves the key stores unchanged.
NextAssert ==
    \/ DoRegister
    \/ DoAssertBegin
    \/ DoAssertAdvance
    \/ DoAssertReturn

\* The challenge timeout plays no part in it.
InitAssert == Init /\ v.config.ChallengeTimeout = 0

SpecAssert == InitAssert /\ [][NextAssert]_vars

\* The Verifier with no platform enabled: it has no stores, so nothing is
\* ever reclaimed and no assertion reaches the counter update.
InitDisabled == Init /\ ~IsEnabled(v)

NextDisabled ==
    \/ Tick
    \/ DoGenerate
    \/ DoValidate
    \/ DoVerify
    \/ DoAssertBegin
    \/ DoAssertReturn

SpecDisabled == InitDisabled /\ [][NextDisabled]_vars

\* The four operations of the Verifier, called one after the other at one
\* point in time, for one identifier and one key id.
NextCalls ==
    \/ DoGenerateOne
    \/ DoValidateOne
    \/ DoVerifyOne
    \/ DoVerifyAssertionOne

SpecCalls == Init /\ [][NextCalls]_vars

\* The challenge stores with all that reads or changes them: time,
\* GenerateChallenge, ValidateChallenge, reclamation, and Verify.
NextFrame ==
    \/ Tick
    \/ DoGenerateOne
    \/ DoValidate
    \/ DoReclaim
    \/ DoVerifyExpired

\* Challenges expire while the clock runs.
InitShort == Init /\ v.config.ChallengeTimeout = ShortTimeout

SpecFrame == InitShort /\ [][NextFrame]_vars

\* The HTTP transport: challenges are issued and requests pass the middleware.
NextHTTP ==
    \/ DoGenerateOne
    \/ DoMiddleware

\* No time passes: the challenge timeout plays no part in it.
InitHTTP == Init /\ v.config.ChallengeTimeout = 0

SpecHTTP == InitHTTP /\ [][NextHTTP]_vars

\* Attestation requests over HTTP against challenges in every condition:
\* never issued, live, expired, consumed.
NextOracle ==
    \/ Tick
    \/ DoGenerateOne
    \/ DoValidateOne
    \/ DoMiddlewareAttestation

SpecOracle == InitShort /\ [][NextOracle]_vars

\* Verify and VerifyAssertion, with calls whose context ends early.
NextCancel ==
    \/ DoVerifyOne
    \/ DoVerifyAssertionOne
    \/ DoVerifyCancelled
    \/ DoVerifyAssertionCancelled

SpecCancel == Init /\ [][NextCancel]_vars

\* Requests for two devices: challenges for two identifiers, assertions for
\* two keys.
NextIndep ==
    \/ DoGenerate
    \/ DoValidateIssued
    \/ DoRegisterNew
    \/ DoAssertBeginOne
    \/ DoAssertAdvance
    \/ DoAssertReturn

\* Only iOS has device keys.
InitIndep == InitAssert /\ IsIOSEnabled(v) /\ ~IsAndroidEnabled(v)

SpecIndep == InitIndep /\ [][NextIndep]_vars

\* The middleware alone, on the requests that decide its flow.
NextFlow == DoMiddlewareFlow

SpecFlow == InitHTTP /\ [][NextFlow]_vars

\* The gRPC interceptor in front of the Verifier.
NextGRPC == DoInterceptor

SpecGRPC == InitHTTP /\ [][NextGRPC]_vars

(* ------------------------------- claims ------------------------------- *)

\* The key store record the request in slot r works on.
SlotKey(r) == <<LibKeyLoc(v, InstOf(r)), calls[r].key>>

\* Slot r holds a finished VerifyAssertion that was given data.
Finished(r) == calls[r].pc = "done" /\ calls[r].present

\* C1. Single-use challenge: a ValidateChallenge(identifier, nonce) for a
\* pair that Generate issued and that an earlier ValidateChallenge already
\* answered true answers false.
C1_SingleUse ==
    (last.op = "Validate" /\ last.prior) => last.res = "false"

\* A second validation of a consumed challenge was refused.
C1_Witness ==
    /\ last.op = "Validate"
    /\ last.prior
    /\ last.chal = "consumed"
    /\ last.res = "false"

\* C2. Counter replay protection: the counter update of an assertion is
\* accepted iff the presented counter is strictly greater than the stored
\* one; on acceptance the stored counter becomes the presented one; on
\* rejection nothing is stored and VerifyAssertion returns ReplayDetected.
C2_CounterReplay ==
    [][\A r \in Req :
         (calls[r].pc = "verified" /\ calls'[r].pc = "done") =>
            /\ (calls'[r].res = Nil) <=> (calls[r].counter > keys[SlotKey(r)])
            /\ calls[r].counter > keys[SlotKey(r)] =>
                 keys' = [keys EXCEPT ![SlotKey(r)] = calls[r].counter]
            /\ calls[r].counter <= keys[SlotKey(r)] =>
                 calls'[r].res = ErrReplayDetected /\ keys' = keys]_vars

\* One assertion was accepted and stored its counter, another one
\* presenting the same counter for the same key was rejected as a replay.
C2_Witness ==
    \E r1, r2 \in Req :
        /\ r1 # r2 /\ Finished(r1) /\ Finished(r2)
        /\ calls[r1].key = calls[r2].key
        /\ calls[r1].counter = calls[r2].counter
        /\ calls[r1].res = Nil /\ IsIOSEnabled(v)
        /\ calls[r2].res = ErrReplayDetected
        /\ keys[SlotKey(r1)] = calls[r1].counter

C5_VerifyNeedsChallenge ==
    (/\ last.op = "Verify" /\ last.present
     /\ LibCanVerify(v, last.platform)) =>
        /\ last.res = Nil => last.chal = "live"
        /\ last.chal # "live" => last.res = ErrInvalidAttestation

\* C7. Challenge expiry: a ValidateChallenge, or a Verify for an enabled
\* platform, that presents an expired challenge fails, and every challenge
\* expires after the configured timeout, or after five minutes when the
\* configured timeout is zero.
C7_Expiry ==
    /\ (last.op = "Validate" /\ last.chal = "expired") => last.res = "false"
    /\ (last.op = "Verify" /\ last.present /\ LibCanVerify(v, last.platform)
        /\ last.chal = "expired") => last.res # Nil
    /\ \A n \in DOMAIN challenges :
         challenges[n].exp = challenges[n].iat +
            (IF v.config.ChallengeTimeout = 0 THEN DefaultChallengeTimeout
             ELSE v.config.ChallengeTimeout)

\* C8. Disabled pass-through: with no platform enabled every Verify and
\* every VerifyAssertion returns success, nil data included, and the
\* stores stay as they were.
C8_DisabledPassThrough ==
    ~IsEnabled(v) =>
        /\ last.op = "Verify" => last.res = Nil
        /\ \A r \in Req : calls[r].pc = "done" => calls[r].res = Nil
        /\ \A r \in Req : calls[r].pc # "verified"
        /\ challenges = <<>>
        /\ \A lk \in Locs \X KeyIDs : keys[lk] = NoKey

\* Disabled, Verify(nil) has returned success and a VerifyAssertion(nil)
\* has returned success.
C8_Witness ==
    /\ ~IsEnabled(v)
    /\ last.op = "Verify" /\ ~last.present /\ last.res = Nil
    /\ \E r \in Req : calls[r].pc = "done" /\ ~calls[r].present /\ calls[r].res = Nil

\* C9. Unknown key on assertion: with the subsystem enabled, a
\* VerifyAssertion given data for a keyID that has no device key returns
\* KeyNotFound.
C9_UnknownKey ==
    \A r \in Req :
        (IsEnabled(v) /\ Finished(r) /\ keys[SlotKey(r)] = NoKey) =>
            calls[r].res = ErrKeyNotFound

\* C10. With the subsystem enabled, Verify(nil) returns AttestationRequired
\* and leaves the stores untouched.
C10_NilRequired ==
    [][(/\ IsEnabled(v) /\ last' # last
        /\ last'.op = "Verify" /\ ~last'.present) =>
            /\ last'.res = ErrAttestationRequired
            /\ UNCHANGED <<challenges, issued, keys, resets, reRegister, okCount>>]_vars

\* Enabled, with a live challenge outstanding and a key registered,
\* Verify(nil) has returned AttestationRequired.
C10_Witness ==
    /\ IsEnabled(v)
    /\ last.op = "Verify" /\ ~last.present
    /\ last.res = ErrAttestationRequired
    /\ \E n \in DOMAIN challenges : ~Expired(challenges[n])
    /\ \E lk \in Locs \X KeyIDs : keys[lk] # NoKey

\* C11. VerifyAssertion(nil) returns AttestationRequired whenever a platform
\* is enabled, and success only when none is.
C11_AssertionNilRequired ==
    \A r \in Req :
        (calls[r].pc = "done" /\ ~calls[r].present) =>
            calls[r].res = (IF IsEnabled(v) THEN ErrAttestationRequired ELSE Nil)

\* C12. With the subsystem enabled, Verify on data whose platform is
\* neither iOS nor Android returns UnsupportedPlatform, the library is not
\* called and the challenge and key stores stay as they were.
C12_UnsupportedPlatform ==
    [][(/\ IsEnabled(v) /\ last' # last
        /\ last'.op = "Verify" /\ last'.present
        /\ last'.platform \notin {PlatformIOS, PlatformAndroid}) =>
            /\ last'.res = ErrUnsupportedPlatform
            /\ last'.lib = Nil
            /\ UNCHANGED <<challenges, issued, keys, resets, reRegister, okCount>>]_vars

\* Enabled, with a challenge outstanding and a key registered, Verify on
\* data of unspecified platform has returned UnsupportedPlatform.
C12_Witness ==
    /\ IsEnabled(v)
    /\ last.op = "Verify" /\ last.present
    /\ last.platform = PlatformUnspecified
    /\ last.res = ErrUnsupportedPlatform
    /\ last.chal = "live"
    /\ \E lk \in Locs \X KeyIDs : keys[lk] # NoKey

\* C13. Verify on iOS or Android data whose platform is not enabled, while
\* the other one is, returns UnsupportedPlatform.
C13_PlatformNotEnabled ==
    (/\ last.op = "Verify" /\ last.present /\ IsEnabled(v)
     /\ last.platform \in {PlatformIOS, PlatformAndroid}
     /\ ~LibCanVerify(v, last.platform)) =>
        last.res = ErrUnsupportedPlatform

\* The error kinds the Verifier exposes.
ErrorKinds ==
    {ErrAttestationRequired, ErrUnsupportedPlatform, ErrInvalidAttestation,
     ErrInvalidAssertion, ErrKeyNotFound, ErrReplayDetected}

\* C14. Closed error surface: every result of Verify and VerifyAssertion is
\* success or one of the six error kinds, and a storage or transport error
\* of the library comes out as InvalidAttestation or InvalidAssertion.
C14_ClosedErrorSurface ==
    last.op \in {"Verify", "VerifyAssertion"} =>
        /\ last.res \in ErrorKinds \cup {Nil}
        /\ last.lib = "other" => last.res \in {ErrInvalidAttestation, ErrInvalidAssertion}

\* A VerifyAssertion in which the library failed with an error of its
\* storage or transport has returned InvalidAttestation.
C14_Witness ==
    /\ last.op = "VerifyAssertion" /\ last.present
    /\ last.lib = "other"
    /\ last.res = ErrInvalidAttestation

\* C15. No challenge oracle: an attestation request for an enabled platform
\* whose challenge is not live in the store (empty, never issued, expired,
\* consumed) is answered InvalidAttestation, 403 invalid_attestation,
\* whatever the reason.
C15_NoChallengeOracle ==
    (/\ last.op = "Middleware" /\ last.branch = "attestation"
     /\ LibCanVerify(v, last.platform)
     /\ last.chal # "live") =>
        /\ last.res = ErrInvalidAttestation
        /\ last.status = 403
        /\ last.code = "invalid_attestation"

\* C16. No silent fallback: with Redis enabled NewVerifier returns an error
\* or a Verifier whose challenge store and key store are on the same
\* backend and not in memory (both Redis when a platform is enabled), and an
\* error when Redis cannot be set up; the Verifier in use is such a result.
C16_NoSilentFallback ==
    /\ \A c \in Configs, r \in RedisConfigs, redisOK \in BOOLEAN, libOK \in BOOLEAN :
         LET result == NewVerifierResult(c, r, redisOK, libOK)
         IN  /\ (r.Enabled /\ ~result.err) =>
                    /\ result.v.challengeStore = result.v.keyStore
                    /\ result.v.challengeStore # "memory"
                    /\ IsEnabled(result.v) =>
                         /\ result.v.challengeStore = "redis"
                         /\ result.v.libKeyStore = "redis"
             /\ (r.Enabled /\ ~redisOK /\ (c.IOSEnabled \/ c.AndroidEnabled)) =>
                    result.err
    /\ v.challengeStore = v.keyStore
    /\ \A n \in DOMAIN challenges : challenges[n].loc = Loc(v.challengeStore, 1)
    /\ \A lk \in Locs \X KeyIDs : keys[lk] # NoKey => lk[1] = Loc(v.keyStore, 1)

\* A Verifier on Redis holds a challenge and a device key, both in the
\* shared store.
C16_Witness ==
    /\ v.challengeStore = "redis" /\ v.keyStore = "redis"
    /\ \E n \in DOMAIN challenges : challenges[n].loc = SharedLoc
    /\ \E k \in KeyIDs : keys[<<SharedLoc, k>>] # NoKey

\* C17. A ValidateChallenge that answers false leaves the challenge stores
\* (and the key stores) and the clock as they were, so that a live challenge
\* stays valid for its identifier: a step that ends in a refused validation
\* and changes any of them is not a step of ValidateChallenge.  A Verify
\* presenting an expired challenge leaves the challenge stores as they were.
C17_ValidateFrame ==
    [][/\ (/\ last'.op = "Validate" /\ last'.res = "false"
            /\ ~UNCHANGED <<challenges, issued, keys, okCount, now>>) =>
                \A i \in Inst, id \in Identifiers, tok \in Tokens, storeErr \in BOOLEAN :
                    ~ValidateChallenge(i, id, tok, storeErr)
       /\ (last' # last /\ last'.op = "Verify" /\ last'.chal = "expired") =>
            challenges' = challenges]_vars

\* A ValidateChallenge under the wrong identifier was refused and the
\* challenge it named is still live.
C17_Witness ==
    /\ last.op = "Validate" /\ last.res = "false" /\ last.chal = "mismatch"
    /\ \E n \in DOMAIN challenges :
         ~challenges[n].consumed /\ ~Expired(challenges[n])

\* C18. No use of an unset store or verifier: with a platform enabled the
\* library verifier, the challenge store and the key store are all set, and
\* no call of the four operations ends in a panic: each returns success or
\* one of its declared results.
C18_NoPanic ==
    /\ IsEnabled(v) =>
         v.verifier # "nil" /\ v.challengeStore # "nil" /\ v.keyStore # "nil"
    /\ last.res # Panic
    /\ last.op \in {"Verify", "VerifyAssertion"} => last.res \in ErrorKinds \cup {Nil}
    /\ last.op = "Validate" => last.res \in {"true", "false"}
    /\ last.op = "Generate" => last.res \in {Nil, "error"}

\* With a platform enabled, a Verify went into the library, which failed,
\* and returned a typed error.
C18_Witness ==
    /\ IsEnabled(v)
    /\ last.op = "Verify" /\ last.present
    /\ last.lib # Nil
    /\ last.res = ErrInvalidAttestation

\* C19. With no platform enabled GenerateChallenge returns the empty string
\* and no error, ValidateChallenge returns true, and no challenge is ever
\* created or consumed.
C19_DisabledChallenges ==
    ~IsEnabled(v) =>
        /\ last.op = "Generate" => last.res = Nil /\ last.tok = 0
        /\ last.op = "Validate" => last.res = "true"
        /\ challenges = <<>> /\ issued = <<>>
        /\ \A n \in 1 .. MaxNonce : okCount[n] = 0

\* Disabled, a ValidateChallenge has returned true without a store.
C19_Witness ==
    /\ ~IsEnabled(v)
    /\ last.op = "Validate" /\ last.res = "true" /\ last.chal = "none"
    /\ challenges = <<>>

\* C20. The middleware answers each error kind with its status code and
\* anything else with 500, and calls the next handler exactly when the
\* verification returned no error, writing no error response then.
C20_StatusCodes ==
    /\ last.op = "Middleware" =>
         /\ last.next <=> last.res = Nil
         /\ last.next => last.status = 0 /\ last.code = ""
         /\ last.res \in {ErrAttestationRequired, ErrKeyNotFound} => last.status = 401
         /\ last.res \in {ErrInvalidAttestation, ErrInvalidAssertion, ErrReplayDetected}
              => last.status = 403
         /\ last.res = ErrUnsupportedPlatform => last.status = 400
         /\ last.res \notin ErrorKinds \cup {Nil} => last.status = 500
    /\ \A e \in LibErrors \cup {Panic} : handleError(e).status = 500

\* An assertion request for an unknown key was answered 401 and not forwarded.
C20_Witness ==
    /\ last.op = "Middleware" /\ last.branch = "assertion"
    /\ last.res = ErrKeyNotFound
    /\ last.status = 401 /\ last.code = "key_not_found"
    /\ ~last.next

\* C22: with at least one platform enabled, the middleware passes a request
\* outside /health to the next handler only if the library's verifier was
\* called on the request's evidence and reported success.
C22_ForwardOnlyVerified ==
    (last.op = "Middleware" /\ IsEnabled(v) /\ last.branch # "health" /\ last.next)
        => last.called /\ last.lib = Nil /\ last.res = Nil

C25_FailureKeepsCounters ==
    [][/\ (last'.op = "VerifyAssertion" /\ last'.res # Nil) => keys' = keys
       /\ (last'.op = "VerifyAssertion" /\ keys' # keys)
            => /\ last'.called /\ last'.lib = Nil /\ last'.res = Nil
               /\ \E lk \in Locs \X KeyIDs :
                    /\ keys[lk] # NoKey /\ keys'[lk] > keys[lk]
                    /\ keys' = [keys EXCEPT ![lk] = keys'[lk]]
       /\ (last'.op = "VerifyAssertion" /\ last'.called /\ last'.res = Nil)
            => keys' # keys]_vars

\* Key K1 has an advanced counter and the last VerifyAssertion for it was
\* rejected as a replay.
C25_Witness ==
    /\ last.op = "VerifyAssertion" /\ last.res = ErrReplayDetected
    /\ \E loc \in Locs : keys[<<loc, "K1">>] > 0

C27_Independence ==
    [][/\ \A lk \in Locs \X KeyIDs :
            (calls' # calls /\ keys'[lk] # keys[lk])
                => \E r \in Req : /\ calls[r].pc = "verified" /\ calls'[r].pc = "done"
                                  /\ lk = SlotKey(r)
       /\ \A tok \in DOMAIN challenges :
            (tok \notin DOMAIN challenges' \/ challenges'[tok] # challenges[tok])
                => /\ tok \in DOMAIN challenges'
                   /\ challenges' = [challenges EXCEPT ![tok].consumed = TRUE]
                   /\ \E i \in Inst :
                        ValidateChallenge(i, challenges[tok].id, tok, FALSE)]_vars

\* Both keys are registered and both identifiers hold a challenge; an
\* assertion advanced K1 while K2 kept its initial counter, and the challenge
\* of one identifier is consumed while the other's is live.
C27_Witness ==
    /\ \E loc \in Locs : keys[<<loc, "K1">>] > 0 /\ keys[<<loc, "K2">>] = 0
    /\ \E t1, t2 \in DOMAIN challenges :
          /\ challenges[t1].id # challenges[t2].id
          /\ challenges[t1].consumed /\ ~challenges[t2].consumed
          /\ last.op = "Validate" /\ last.res = "false" /\ last.chal = "mismatch"

\* C28: with a platform enabled and a path outside /health, a request with
\* a non-empty X-Attestation-Assertion header takes the assertion flow,
\* with or without X-Attestation; one with X-Attestation alone takes the
\* attestation flow; one with neither is answered 401 attestation_required
\* with no call of the verifier and is not forwarded.  The flow taken is one
\* of the three, and a request that got an error response is not forwarded.
C28_FlowSelection ==
    [][last'.op = "Middleware" =>
         \A i \in Inst, req \in FlowRequests :
            (IsEnabled(v) /\ ~req.health
               /\ \E answer \in MiddlewareAnswers(req), c0 \in InitialCounters :
                     Middleware(i, req, answer, c0))
            => /\ req.assertion => last'.branch = "assertion"
               /\ (~req.assertion /\ req.attestation) => last'.branch = "attestation"
               /\ (~req.assertion /\ ~req.attestation)
                    => /\ last'.branch = "missing" /\ ~last'.called
                       /\ last'.status = 401 /\ last'.code = "attestation_required"
                       /\ ~last'.next
                       /\ UNCHANGED <<keys, challenges>>
               /\ last'.branch \in {"assertion", "attestation", "missing"}
               /\ last'.next => last'.status = 0]_vars

\* Both headers were sent: the assertion flow ran (the library looked the
\* key up and did not find it) and the request was answered 401.
C28_Witness ==
    /\ last.op = "Middleware" /\ last.branch = "assertion" /\ last.called
    /\ last.res = ErrKeyNotFound /\ last.status = 401 /\ ~last.next
    /\ \E i \in Inst, req \in FlowRequests :
          /\ req.assertion /\ req.attestation
          /\ keys[<<LibKeyLoc(v, i), req.keyID>>] = NoKey

\* C29: with a platform enabled, the interceptor calls the RPC's handler
\* only for /auth.v1.HealthService/Check or after Verify returned success
\* on the data extracted from the request; a request of a type without an
\* attestation field gets the status Unauthenticated, with the library not
\* called and the handler not invoked.
C29_InterceptorGate ==
    [][last'.op = "Interceptor" =>
         \A i \in Inst, rpc \in RPCs :
            (IsEnabled(v)
               /\ \E answer \in InterceptorAnswers(rpc), c0 \in InitialCounters :
                     Interceptor(i, rpc, answer, c0))
            => /\ last'.next
                    => \/ rpc.health
                       \/ /\ extractAttestationData(rpc).present
                          /\ rpc.attestation.platform \in {"PLATFORM_IOS", "PLATFORM_ANDROID"}
                          /\ last'.called /\ last'.lib = Nil /\ last'.res = Nil
               /\ (~rpc.health /\ rpc.type = "SignOutRequest")
                    => /\ ~last'.next /\ ~last'.called
                       /\ last'.res = ErrAttestationRequired
                       /\ last'.code = "Unauthenticated"
                       /\ UNCHANGED <<keys, challenges>>]_vars

\* A request without an attestation field was rejected as Unauthenticated
\* by a verifier that holds a registered key.
C29_Witness ==
    /\ last.op = "Interceptor" /\ IsEnabled(v)
    /\ last.res = ErrAttestationRequired /\ last.code = "Unauthenticated"
    /\ ~last.next /\ ~last.called
    /\ \E loc \in Locs : keys[<<loc, "K1">>] # NoKey

\* C30: whenever NewVerifier, called with the configuration of the Verifier
\* in use, returns an error, the Redis client and the challenge store it
\* opened are closed, on every failure path.
C30_ClosedOnError ==
    \A r \in RedisConfigs, failure \in FailurePoints :
        LET result == NewVerifierResources(v.config, r, failure)
        IN  result.err => /\ result.res.redisClient # "open"
                          /\ result.res.challengeStore # "open"

====
